---- MODULE Spec2Model ----
(***************************************************************************)
(* Serial command protocol engine of the JVC projector remote              *)
(* (src/projector.py): framing (send), response validation (recv), the     *)
(* operating / reference request flavours and the public operations of     *)
(* the two device profiles HD250 and RS40.                                 *)
(*                                                                         *)
(* Bytes are integers 0..255, byte strings are sequences of bytes.         *)
(* Python values are records [t, v, s]: t is the type tag, v the bytes of  *)
(* a bytes value, s the text of a str / bool / exception object.           *)
(***************************************************************************)
EXTENDS Integers, Sequences, FiniteSets, TLC

\* ------------------------------------------------------------------------
\* Bounds of the model
\* ------------------------------------------------------------------------

\* longest payload part of a frame the device may put on the line
MaxPayloadLen == 1

\* ------------------------------------------------------------------------
\* Python values and outcomes
\* ------------------------------------------------------------------------

PyNone == [t |-> "None", v |-> <<>>, s |-> ""]

PyTrue == [t |-> "bool", v |-> <<>>, s |-> "True"]

PyFalse == [t |-> "bool", v |-> <<>>, s |-> "False"]

PyBytes(b) == [t |-> "bytes", v |-> b, s |-> ""]

PyStr(x) == [t |-> "str", v |-> <<>>, s |-> x]

\* an exception OBJECT handed back as an ordinary value (not raised)
PyExcObject(cls, m) == [t |-> cls, v |-> <<>>, s |-> m]

\* Python truth value of a value (`if x:` / `if not x:`)
Truthy(x) ==
    CASE x.t = "None" -> FALSE
      [] x.t = "bool" -> x.s = "True"
      [] x.t = "bytes" -> x.v # <<>>
      [] x.t = "str" -> x.s # ""
      [] OTHER -> TRUE

\* a call that returned val
Ok(val) == [exc |-> "none", msg |-> "", val |-> val]

\* a call that raised exception class e with message m
Raise(e, m) == [exc |-> e, msg |-> m, val |-> PyNone]

PCE == "ProjectorCommunicationError"

MsgNoResponse == "no response from projector"

MsgUnknownResultCode == "device returned unknown result code"

MsgUnknownUnitId == "device returned unknown unit id"

MsgCommandMismatch == "device returned response command response"

\* ------------------------------------------------------------------------
\* Byte string helpers (Python slicing)
\* ------------------------------------------------------------------------

Min(a, b) == IF a < b THEN a ELSE b

\* s[a:b] for 0 <= a, 0 <= b
Slice(s, a, b) ==
    IF a >= Min(b, Len(s)) THEN <<>> ELSE SubSeq(s, a + 1, Min(b, Len(s)))

\* s[a:-1] for 0 <= a
SliceDropLast(s, a) ==
    IF a >= Len(s) - 1 THEN <<>> ELSE SubSeq(s, a + 1, Len(s) - 1)

\* ------------------------------------------------------------------------
\* Command registry
\* ------------------------------------------------------------------------

\* Button.CODES
CODES ==
    [ up |-> <<48, 49>>, down |-> <<48, 50>>, back |-> <<48, 51>>,
      on |-> <<48, 53>>, standby |-> <<48, 54>>, input |-> <<48, 56>>,
      brightness |-> <<48, 57>>, contrast |-> <<48, 65>>,
      sharpness |-> <<49, 52>>, color |-> <<49, 53>>, tint |-> <<49, 54>>,
      noise_reduction |-> <<49, 56>>, hide |-> <<49, 68>>,
      lens_aperture |-> <<50, 48>>, menu |-> <<50, 69>>, ok |-> <<50, 70>>,
      lens |-> <<51, 48>>, right |-> <<51, 52>>, left |-> <<51, 54>>,
      test |-> <<53, 57>>, stage |-> <<54, 55>>, cinema2 |-> <<54, 56>>,
      cinema1 |-> <<54, 57>>, natural |-> <<54, 65>>, dynamic |-> <<54, 66>>,
      user1 |-> <<54, 68>>, user2 |-> <<54, 67>>, user3 |-> <<54, 69>>,
      info |-> <<55, 52>>, gamma |-> <<55, 53>>, color_temp |-> <<55, 54>>,
      aspect |-> <<55, 55>> ]

\* HD250.VALID_BUTTONS
HD250_VALID_BUTTONS ==
    { "up", "down", "back", "on", "standby", "input", "brightness",
      "contrast", "sharpness", "color", "tint", "noise_reduction", "hide",
      "lens_aperture", "menu", "ok", "lens", "right", "left", "test",
      "stage", "cinema2", "cinema1", "natural", "dynamic", "user1", "user2",
      "user3", "info", "gamma", "color_temp", "aspect" }

\* RS40.VALID_BUTTONS
RS40_VALID_BUTTONS ==
    { "up", "down", "back", "on", "standby", "hide", "lens_aperture",
      "menu", "ok", "lens", "right", "left", "stage", "cinema2", "cinema1",
      "natural", "dynamic", "user1", "user2", "user3", "info", "gamma",
      "color_temp", "aspect" }

\* HD250.INPUT_SOURCES with the code of "video" given to "computer" too
HD250_INPUT_SOURCES_SharedCode ==
    { <<"s-video", <<48>> >>, <<"video", <<49>> >>, <<"computer", <<49>> >>,
      <<"hdmi1", <<54>> >>, <<"hdmi2", <<55>> >> }

\* HD250.INPUT_SOURCES, as a set of <<source, code>> pairs
HD250_INPUT_SOURCES ==
    { <<"s-video", <<48>> >>, <<"video", <<49>> >>, <<"computer", <<50>> >>,
      <<"hdmi1", <<54>> >>, <<"hdmi2", <<55>> >> }

\* RS40.INPUT_SOURCES, as a set of <<source, code>> pairs
RS40_INPUT_SOURCES ==
    { <<"component", <<50>> >>, <<"hdmi1", <<54>> >>, <<"hdmi2", <<55>> >> }

Profiles == {"HD250", "RS40"}

INPUT_SOURCES(p) == IF p = "HD250" THEN HD250_INPUT_SOURCES ELSE RS40_INPUT_SOURCES

\* SOURCE_CODES = {code: name for name, code in INPUT_SOURCES.items()}
SOURCE_CODES(p) == { <<e[2], e[1]>> : e \in INPUT_SOURCES(p) }

\* VALID_SOURCES = {name for name in INPUT_SOURCES.keys()}
VALID_SOURCES(p) == { e[1] : e \in INPUT_SOURCES(p) }

\* valid_buttons that ignores the profile and answers with the HD250 set
valid_buttons_AnyProfile(p) == HD250_VALID_BUTTONS

valid_buttons(p) == IF p = "HD250" THEN HD250_VALID_BUTTONS ELSE RS40_VALID_BUTTONS

\* dict lookup d[k] on a set of <<key, value>> pairs; KeyError when absent
Lookup(d, k) ==
    IF \E e \in d : e[1] = k
    THEN Ok(PyBytes((CHOOSE e \in d : e[1] = k)[2]))
    ELSE Raise("KeyError", "")

\* source_to_code(source) = INPUT_SOURCES[source]
source_to_code(p, source) == Lookup(INPUT_SOURCES(p), source)

\* code_to_source(code) = SOURCE_CODES[code]; code is a Python value
code_to_source(p, code) ==
    IF code.t = "bytes" /\ \E e \in SOURCE_CODES(p) : e[1] = code.v
    THEN Ok(PyStr((CHOOSE e \in SOURCE_CODES(p) : e[1] = code.v)[2]))
    ELSE Raise("KeyError", "")

\* ------------------------------------------------------------------------
\* Frame codec
\* ------------------------------------------------------------------------

\* the packet with the unit id joined after the command
Packet_UnitAfterCmd(header, uid, c, d) ==
    IF d # <<>> THEN header \o c \o uid \o d \o <<10>>
    ELSE header \o c \o uid \o <<10>>

\* the packet without the footer
Packet_NoFooter(header, uid, c, d) ==
    IF d # <<>> THEN header \o uid \o c \o d
    ELSE header \o uid \o c

\* the packet send() joins and writes: header, unit id, cmd, [data], footer
Packet(header, uid, c, d) ==
    IF d # <<>> THEN header \o uid \o c \o d \o <<10>>
    ELSE header \o uid \o c \o <<10>>

\* send() that always checks for the command it sent
ExpectedCmd_IgnoreOverride(c, rc) == c

\* the command recv() is asked to check: response_cmd, or cmd when not given
ExpectedCmd(c, rc) == IF rc = <<>> THEN c ELSE rc

\* recv() without the unit id comparison
recv_NoUnitCheck(rsp, c, uid) ==
    IF rsp = <<>> THEN Raise(PCE, MsgNoResponse)
    ELSE IF rsp[1] # 6 /\ rsp[1] # 64 THEN Raise(PCE, MsgUnknownResultCode)
    ELSE IF Slice(rsp, 3, 3 + Len(c)) # c THEN Raise(PCE, MsgCommandMismatch)
    ELSE IF rsp[1] = 64 THEN Ok(PyBytes(SliceDropLast(rsp, 3 + Len(c))))
    ELSE Ok(PyTrue)

\* recv() comparing the command echo before the unit id
recv_CmdBeforeUnit(rsp, c, uid) ==
    IF rsp = <<>> THEN Raise(PCE, MsgNoResponse)
    ELSE IF rsp[1] # 6 /\ rsp[1] # 64 THEN Raise(PCE, MsgUnknownResultCode)
    ELSE IF Slice(rsp, 3, 3 + Len(c)) # c THEN Raise(PCE, MsgCommandMismatch)
    ELSE IF Slice(rsp, 1, 3) # uid THEN Raise(PCE, MsgUnknownUnitId)
    ELSE IF rsp[1] = 64 THEN Ok(PyBytes(SliceDropLast(rsp, 3 + Len(c))))
    ELSE Ok(PyTrue)

\* recv() without the command echo comparison
recv_NoCmdCheck(rsp, c, uid) ==
    IF rsp = <<>> THEN Raise(PCE, MsgNoResponse)
    ELSE IF rsp[1] # 6 /\ rsp[1] # 64 THEN Raise(PCE, MsgUnknownResultCode)
    ELSE IF Slice(rsp, 1, 3) # uid THEN Raise(PCE, MsgUnknownUnitId)
    ELSE IF rsp[1] = 64 THEN Ok(PyBytes(SliceDropLast(rsp, 3 + Len(c))))
    ELSE Ok(PyTrue)

\* recv() without the `if not resp` test: resp[0] of an empty line
recv_NoEmptyCheck(rsp, c, uid) ==
    IF rsp = <<>> THEN Raise("IndexError", "index out of range")
    ELSE IF rsp[1] # 6 /\ rsp[1] # 64 THEN Raise(PCE, MsgUnknownResultCode)
    ELSE IF Slice(rsp, 1, 3) # uid THEN Raise(PCE, MsgUnknownUnitId)
    ELSE IF Slice(rsp, 3, 3 + Len(c)) # c THEN Raise(PCE, MsgCommandMismatch)
    ELSE IF rsp[1] = 64 THEN Ok(PyBytes(SliceDropLast(rsp, 3 + Len(c))))
    ELSE Ok(PyTrue)

\* recv(cmd) applied to the line resp returned by port.readline()
recv(rsp, c, uid) ==
    IF rsp = <<>> THEN Raise(PCE, MsgNoResponse)
    ELSE IF rsp[1] # 6 /\ rsp[1] # 64 THEN Raise(PCE, MsgUnknownResultCode)
    ELSE IF Slice(rsp, 1, 3) # uid THEN Raise(PCE, MsgUnknownUnitId)
    ELSE IF Slice(rsp, 3, 3 + Len(c)) # c THEN Raise(PCE, MsgCommandMismatch)
    ELSE IF rsp[1] = 64 THEN Ok(PyBytes(SliceDropLast(rsp, 3 + Len(c))))
    ELSE Ok(PyTrue)

\* ------------------------------------------------------------------------
\* What port.readline() may return: a line is a result part, a unit id
\* part, a command part, a payload part and possibly the terminator; each
\* part may be missing, cut short or wrong.  The terminator 0x0A only ever
\* ends a line, and the empty line is the read deadline passing.
\* ------------------------------------------------------------------------

\* the unit_id default of Projector.__init__, used by every caller
DefaultUnitId == <<137, 1>>

ResultParts == { <<>>, <<6>>, <<64>>, <<21>> }

UnitParts == { <<>>, <<137>>, <<137, 1>>, <<137, 2>> }

CmdParts ==
    { <<>>, <<80>>, <<80, 87>>, <<80, 88>>, <<73, 80>>, <<82, 67>>,
      <<82, 67, 55, 51>>, <<0, 0>> }

PayloadBytes == { 48, 49, 50, 52, 54, 57 }

PayloadParts == UNION { [1..k -> PayloadBytes] : k \in 0..MaxPayloadLen }

TermParts == { <<>>, <<10>> }

Frames ==
    { r \o u \o c \o d \o t :
        r \in ResultParts, u \in UnitParts, c \in CmdParts,
        d \in PayloadParts, t \in TermParts }

\* arguments a caller may pass
ButtonArgs == DOMAIN CODES \cup {"eject"}

SourceArgs == { "s-video", "video", "component", "computer", "hdmi1", "hdmi2", "vga" }

\* ------------------------------------------------------------------------
\* State
\* ------------------------------------------------------------------------

VARIABLES
    profile,    \* the concrete class of the session: "HD250" or "RS40"
    unit_id,    \* self.unit_id
    op,         \* the public operation in progress, "none" when idle
    arg,        \* its argument (button or source), "" when it has none
    pc,         \* position of the call
    phase,      \* "mode": inside the self.mode query; "main": the rest
    req,        \* parameters of the send() in progress
    ref,        \* TRUE when send() was called by send_reference()
    caller,     \* who called recv(): "send" or "send_reference"
    expect,     \* the cmd parameter of the recv() in progress
    resp,       \* the line the last recv() read; empty before the next one
    res,        \* outcome of the last recv()
    was_ok,     \* send_reference(): outcome of its self.send(...)
    sr,         \* outcome of the last send_reference()
    mode_val,   \* outcome of self.mode as set_input / input evaluated it
    ret,        \* outcome of the public operation
    written,    \* frames written to the port during this call
    nreads,     \* number of port.readline() calls during this call
    io,         \* order of port accesses during this call: "w" / "r"
    failed,     \* a recv() of this call raised ProjectorCommunicationError
    inflight,   \* replies the device has not put on the line yet
    rx,         \* lines waiting in the input buffer of the port
    stale_read  \* the last line read answers a frame of an earlier call

vars ==
    << profile, unit_id, op, arg, pc, phase, req, ref, caller, expect, resp,
       res, was_ok, sr, mode_val, ret, written, nreads, io, failed, inflight,
       rx, stale_read >>

\* the device side of the port
portvars == << inflight, rx, stale_read >>

NoReq == [header |-> <<>>, cmd |-> <<>>, data |-> <<>>, response_cmd |-> <<>>]

NoSr == [exc |-> "none", msg |-> "", success |-> PyNone, state |-> PyNone]

\* Projector.__init__: nothing is sent or read at construction
Init ==
    /\ profile \in Profiles
    /\ unit_id = DefaultUnitId
    /\ op = "none"
    /\ arg = ""
    /\ pc = "idle"
    /\ phase = "main"
    /\ req = NoReq
    /\ ref = FALSE
    /\ caller = "send"
    /\ expect = <<>>
    /\ resp = <<>>
    /\ res = Ok(PyNone)
    /\ was_ok = Ok(PyNone)
    /\ sr = NoSr
    /\ mode_val = Ok(PyNone)
    /\ ret = Ok(PyNone)
    /\ written = <<>>
    /\ nreads = 0
    /\ io = <<>>
    /\ failed = FALSE
    /\ inflight = <<>>
    /\ rx = <<>>
    /\ stale_read = FALSE

\* a call starts; its locals and the per-call records are fresh
Enter(o, a) ==
    /\ pc = "idle"
    /\ op' = o
    /\ arg' = a
    /\ UNCHANGED << portvars, was_ok, profile, unit_id, caller, expect, resp, res, sr, mode_val,
                    written, nreads, io, failed >>

\* send_operating(cmd, data, response_cmd): calls send(b"\x21", ...)
send_operating(c, d, rc) ==
    /\ req' = [header |-> <<33>>, cmd |-> c, data |-> d, response_cmd |-> rc]
    /\ ref' = FALSE
    /\ pc' = "send"

\* send_reference(cmd): calls send(b"\x3f", cmd, None)
send_reference(c) ==
    /\ req' = [header |-> <<63>>, cmd |-> c, data |-> <<>>, response_cmd |-> <<>>]
    /\ ref' = TRUE
    /\ pc' = "send"

\* the call ends with outcome o
Finish(o) ==
    /\ ret' = o
    /\ pc' = "done"

\* ------------------------------------------------------------------------
\* Public operations: the code of each up to its first port access
\* ------------------------------------------------------------------------

\* ready: send_operating(b"\x00\x00")
Ready ==
    /\ Enter("ready", "")
    /\ phase' = "main"
    /\ send_operating(<<0, 0>>, <<>>, <<>>)
    /\ UNCHANGED ret

\* mode: send_reference(b"\x50\x57") inside the try block
Mode ==
    /\ Enter("mode", "")
    /\ phase' = "mode"
    /\ send_reference(<<80, 87>>)
    /\ UNCHANGED ret

\* turn_on: send_operating(b"\x50\x57", b"\x31")
TurnOn ==
    /\ Enter("turn_on", "")
    /\ phase' = "main"
    /\ send_operating(<<80, 87>>, <<49>>, <<>>)
    /\ UNCHANGED ret

\* turn_off: send_operating(b"\x50\x57", b"\x30")
TurnOff ==
    /\ Enter("turn_off", "")
    /\ phase' = "main"
    /\ send_operating(<<80, 87>>, <<48>>, <<>>)
    /\ UNCHANGED ret

\* set_input(source): starts by evaluating self.mode
SetInput ==
    \E source \in SourceArgs :
        /\ Enter("set_input", source)
        /\ phase' = "mode"
        /\ send_reference(<<80, 87>>)
        /\ UNCHANGED ret

\* press_button() validating against Button.CODES instead of valid_buttons
PressButton_AnyKnownButton ==
    \E btn \in ButtonArgs :
        /\ Enter("press_button", btn)
        /\ phase' = "main"
        /\ IF btn \notin DOMAIN CODES
           THEN /\ Finish(Raise("ValueError", "unsupported button"))
                /\ UNCHANGED << req, ref >>
           ELSE /\ send_operating(<<82, 67, 55, 51>>, CODES[btn], <<82, 67>>)
                /\ UNCHANGED ret

\* press_button(btn): validation, then the remote control command
PressButton ==
    \E btn \in ButtonArgs :
        /\ Enter("press_button", btn)
        /\ phase' = "main"
        /\ IF btn \notin valid_buttons(profile)
           THEN /\ Finish(Raise("ValueError", "unsupported button"))
                /\ UNCHANGED << req, ref >>
           ELSE /\ send_operating(<<82, 67, 55, 51>>, CODES[btn], <<82, 67>>)
                /\ UNCHANGED ret

\* input: starts by evaluating self.mode
Input ==
    /\ Enter("input", "")
    /\ phase' = "mode"
    /\ send_reference(<<80, 87>>)
    /\ UNCHANGED ret

\* model: both profiles override it with a constant string
Model ==
    /\ Enter("model", "")
    /\ phase' = "main"
    /\ Finish(Ok(PyStr(IF profile = "HD250" THEN "DLA-HD250" ELSE "DLA-RS40")))
    /\ UNCHANGED << req, ref >>

\* ------------------------------------------------------------------------
\* Transport
\* ------------------------------------------------------------------------

\* send(): build the packet, write it, then call recv(response_cmd or cmd)
SendPacket ==
    /\ pc = "send"
    /\ written' = Append(written, Packet(req.header, unit_id, req.cmd, req.data))
    /\ io' = Append(io, "w")
    /\ expect' = ExpectedCmd(req.cmd, req.response_cmd)
    /\ caller' = "send"
    /\ pc' = "recv"
    /\ UNCHANGED << was_ok, profile, unit_id, op, arg, phase, req, ref, resp,
                    res, sr, mode_val, ret, nreads, failed >>

\* send() on a port whose other end is not modelled
Send ==
    /\ SendPacket
    /\ UNCHANGED portvars

\* recv() when port.readline() returns line: the checks on the line
RecvLine(line) ==
    /\ pc = "recv"
    /\ resp' = line
    /\ res' = recv(line, expect, unit_id)
    /\ failed' = (failed \/ recv(line, expect, unit_id).exc = PCE)
    /\ nreads' = nreads + 1
    /\ io' = Append(io, "r")
    /\ pc' = "recv_ret"
    /\ UNCHANGED << was_ok, profile, unit_id, op, arg, phase, req, ref,
                    caller, expect, sr, mode_val, ret, written >>

\* recv(): one port.readline(), which may return any line
Recv ==
    /\ pc = "recv"
    /\ \E line \in Frames : RecvLine(line)
    /\ UNCHANGED portvars

\* send_operating() that sends again when nothing came back
SendOperatingReturn_Retry ==
    /\ pc = "recv_ret"
    /\ caller = "send"
    /\ ~ref
    /\ IF res = Raise(PCE, MsgNoResponse) /\ Len(io) < 6
       THEN pc' = "send" /\ UNCHANGED ret
       ELSE Finish(res)
    /\ UNCHANGED << portvars, was_ok, profile, unit_id, op, arg, phase, req,
                    ref, caller, expect, resp, res, sr, mode_val, written,
                    nreads, io, failed >>

\* send() returns recv()'s result to send_operating(), which returns it to
\* ready / turn_on / turn_off / set_input / press_button, which return it
SendOperatingReturn ==
    /\ pc = "recv_ret"
    /\ caller = "send"
    /\ ~ref
    /\ Finish(res)
    /\ UNCHANGED << portvars, was_ok, profile, unit_id, op, arg, phase, req, ref, caller, expect,
                    resp, res, sr, mode_val, written, nreads, io, failed >>

\* send_reference() testing `if was_ok:` instead of `if was_ok == True:`
SendReferenceAck_AnyTruthy ==
    /\ pc = "recv_ret"
    /\ caller = "send"
    /\ ref
    /\ was_ok' = res
    /\ IF res.exc # "none"
       THEN /\ sr' = [exc |-> res.exc, msg |-> res.msg,
                      success |-> PyNone, state |-> PyNone]
            /\ pc' = "returned"
            /\ UNCHANGED << caller, expect, resp >>
       ELSE IF Truthy(res.val)
       THEN /\ caller' = "send_reference"
            /\ expect' = req.cmd
            /\ resp' = <<>>
            /\ pc' = "recv"
            /\ UNCHANGED sr
       ELSE /\ sr' = [exc |-> "none", msg |-> "",
                      success |-> res.val, state |-> PyNone]
            /\ pc' = "returned"
            /\ UNCHANGED << caller, expect, resp >>
    /\ UNCHANGED << portvars, profile, unit_id, op, arg, phase, req, ref, res,
                    mode_val, ret, written, nreads, io, failed >>

\* send_reference() after send(): was_ok == True asks for the data line
SendReferenceAck ==
    /\ pc = "recv_ret"
    /\ caller = "send"
    /\ ref
    /\ was_ok' = res
    /\ IF res.exc # "none"
       THEN /\ sr' = [exc |-> res.exc, msg |-> res.msg,
                      success |-> PyNone, state |-> PyNone]
            /\ pc' = "returned"
            /\ UNCHANGED << caller, expect, resp >>
       ELSE IF res.val = PyTrue
       THEN /\ caller' = "send_reference"
            /\ expect' = req.cmd
            /\ resp' = <<>>
            /\ pc' = "recv"
            /\ UNCHANGED sr
       ELSE /\ sr' = [exc |-> "none", msg |-> "",
                      success |-> res.val, state |-> PyNone]
            /\ pc' = "returned"
            /\ UNCHANGED << caller, expect, resp >>
    /\ UNCHANGED << portvars, profile, unit_id, op, arg, phase, req, ref, res,
                    mode_val, ret, written, nreads, io, failed >>

\* send_reference() after its own recv(cmd): returns (was_ok, data)
SendReferenceData ==
    /\ pc = "recv_ret"
    /\ caller = "send_reference"
    /\ sr' = IF res.exc # "none"
             THEN [exc |-> res.exc, msg |-> res.msg,
                   success |-> PyNone, state |-> PyNone]
             ELSE [exc |-> "none", msg |-> "",
                   success |-> PyTrue, state |-> res.val]
    /\ pc' = "returned"
    /\ UNCHANGED << portvars, was_ok, profile, unit_id, op, arg, phase, req, ref, caller, expect,
                    resp, res, mode_val, ret, written, nreads, io, failed >>

\* ------------------------------------------------------------------------
\* Public operations: the code after a reference request
\* ------------------------------------------------------------------------

\* the power states mode decodes
modes ==
    { <<(<<48>>), "standby">>, <<(<<49>>), "power-on">>,
      <<(<<50>>), "cool-down">>, <<(<<52>>), "warning">> }

\* mode answering "standby" for a power state byte it does not know
mode_DefaultStandby(r) ==
    LET success == IF r.exc # "none" THEN PyNone ELSE r.success
    IN  IF ~Truthy(success) THEN Ok(PyNone)
        ELSE IF r.state.t = "bytes" /\ \E e \in modes : e[1] = r.state.v
        THEN Ok(PyStr((CHOOSE e \in modes : e[1] = r.state.v)[2]))
        ELSE Ok(PyStr("standby"))

\* mode, from the outcome of send_reference(b"\x50\x57") on: any exception
\* is printed and leaves success = None
mode(r) ==
    LET success == IF r.exc # "none" THEN PyNone ELSE r.success
    IN  IF ~Truthy(success) THEN Ok(PyNone)
        ELSE IF r.state.t = "bytes" /\ \E e \in modes : e[1] = r.state.v
        THEN Ok(PyStr((CHOOSE e \in modes : e[1] = r.state.v)[2]))
        ELSE Raise("ValueError", "unknown power state")

\* the mode property returns to its caller
ModeReturn ==
    /\ pc = "returned"
    /\ op = "mode"
    /\ Finish(mode(sr))
    /\ UNCHANGED << portvars, was_ok, profile, unit_id, op, arg, phase, req, ref, caller, expect,
                    resp, res, sr, mode_val, written, nreads, io, failed >>

\* set_input() without the power-on check
SetInputAfterMode_NoPowerCheck ==
    /\ pc = "returned"
    /\ op = "set_input"
    /\ mode_val' = mode(sr)
    /\ IF mode(sr).exc # "none"
       THEN /\ Finish(mode(sr))
            /\ UNCHANGED << phase, req, ref >>
       ELSE IF source_to_code(profile, arg).exc = "KeyError"
       THEN /\ Finish(Ok(PyExcObject("ValueError", "invalid input")))
            /\ UNCHANGED << phase, req, ref >>
       ELSE /\ phase' = "main"
            /\ send_operating(<<73, 80>>, source_to_code(profile, arg).val.v, <<>>)
            /\ UNCHANGED ret
    /\ UNCHANGED << portvars, was_ok, profile, unit_id, op, arg, caller, expect, resp, res, sr,
                    written, nreads, io, failed >>

\* set_input() after self.mode: power-on check, source lookup, request
SetInputAfterMode ==
    /\ pc = "returned"
    /\ op = "set_input"
    /\ mode_val' = mode(sr)
    /\ IF mode(sr).exc # "none"
       THEN /\ Finish(mode(sr))
            /\ UNCHANGED << phase, req, ref >>
       ELSE IF mode(sr).val # PyStr("power-on")
       THEN /\ Finish(Ok(PyFalse))
            /\ UNCHANGED << phase, req, ref >>
       ELSE IF source_to_code(profile, arg).exc = "KeyError"
       THEN /\ Finish(Ok(PyExcObject("ValueError", "invalid input")))
            /\ UNCHANGED << phase, req, ref >>
       ELSE /\ phase' = "main"
            /\ send_operating(<<73, 80>>, source_to_code(profile, arg).val.v, <<>>)
            /\ UNCHANGED ret
    /\ UNCHANGED << portvars, was_ok, profile, unit_id, op, arg, caller, expect, resp, res, sr,
                    written, nreads, io, failed >>

\* input that gives up only when the projector reports standby
InputAfterMode_OnlyStandby ==
    /\ pc = "returned"
    /\ op = "input"
    /\ phase = "mode"
    /\ mode_val' = mode(sr)
    /\ IF mode(sr).exc # "none"
       THEN /\ Finish(mode(sr))
            /\ UNCHANGED << phase, req, ref >>
       ELSE IF mode(sr).val = PyStr("standby")
       THEN /\ Finish(Ok(PyNone))
            /\ UNCHANGED << phase, req, ref >>
       ELSE /\ phase' = "main"
            /\ send_reference(<<73, 80>>)
            /\ UNCHANGED ret
    /\ UNCHANGED << portvars, was_ok, profile, unit_id, op, arg, caller,
                    expect, resp, res, sr, written, nreads, io, failed >>

\* input after self.mode: power-on check, then send_reference(b"\x49\x50")
InputAfterMode ==
    /\ pc = "returned"
    /\ op = "input"
    /\ phase = "mode"
    /\ mode_val' = mode(sr)
    /\ IF mode(sr).exc # "none"
       THEN /\ Finish(mode(sr))
            /\ UNCHANGED << phase, req, ref >>
       ELSE IF mode(sr).val # PyStr("power-on")
       THEN /\ Finish(Ok(PyNone))
            /\ UNCHANGED << phase, req, ref >>
       ELSE /\ phase' = "main"
            /\ send_reference(<<73, 80>>)
            /\ UNCHANGED ret
    /\ UNCHANGED << portvars, was_ok, profile, unit_id, op, arg, caller, expect, resp, res, sr,
                    written, nreads, io, failed >>

\* input with the reference request wrapped in a try block, as mode has it
input_Swallow(p, r) ==
    IF r.exc # "none" THEN Ok(PyNone)
    ELSE IF ~Truthy(r.success) THEN Ok(PyNone)
    ELSE IF code_to_source(p, r.state).exc = "KeyError"
    THEN Raise("ValueError", "unknown video state")
    ELSE code_to_source(p, r.state)

\* input, from the outcome of send_reference(b"\x49\x50") on
input(p, r) ==
    IF r.exc # "none" THEN Raise(r.exc, r.msg)
    ELSE IF ~Truthy(r.success) THEN Ok(PyNone)
    ELSE IF code_to_source(p, r.state).exc = "KeyError"
    THEN Raise("ValueError", "unknown video state")
    ELSE code_to_source(p, r.state)

\* the input property returns to its caller
InputReturn ==
    /\ pc = "returned"
    /\ op = "input"
    /\ phase = "main"
    /\ Finish(input(profile, sr))
    /\ UNCHANGED << portvars, was_ok, profile, unit_id, op, arg, phase, req, ref, caller, expect,
                    resp, res, sr, mode_val, written, nreads, io, failed >>

\* what is still on its way to the port, or unread in its input buffer,
\* when a call ends answers a frame of a call that is over
Stale(q) == [i \in 1..Len(q) |-> [q[i] EXCEPT !.fresh = FALSE]]

\* the caller takes the outcome; the locals of the call are gone and the
\* session (profile, unit id, port) is ready for the next call; the port is
\* left as it is: nothing discards what arrives late
Return ==
    /\ pc = "done"
    /\ pc' = "idle"
    /\ op' = "none"
    /\ arg' = ""
    /\ phase' = "main"
    /\ req' = NoReq
    /\ ref' = FALSE
    /\ caller' = "send"
    /\ expect' = <<>>
    /\ resp' = <<>>
    /\ res' = Ok(PyNone)
    /\ was_ok' = Ok(PyNone)
    /\ sr' = NoSr
    /\ mode_val' = Ok(PyNone)
    /\ ret' = Ok(PyNone)
    /\ written' = <<>>
    /\ nreads' = 0
    /\ io' = <<>>
    /\ failed' = FALSE
    /\ inflight' = Stale(inflight)
    /\ rx' = Stale(rx)
    /\ stale_read' = FALSE
    /\ UNCHANGED << profile, unit_id >>

Next ==
    \/ Ready
    \/ Mode
    \/ TurnOn
    \/ TurnOff
    \/ SetInput
    \/ PressButton
    \/ Input
    \/ Model
    \/ Send
    \/ Recv
    \/ SendOperatingReturn
    \/ SendReferenceAck
    \/ SendReferenceData
    \/ ModeReturn
    \/ SetInputAfterMode
    \/ InputAfterMode
    \/ InputReturn
    \/ Return

Spec == Init /\ [][Next]_vars

\* ------------------------------------------------------------------------
\* The codec on its own: send() builds a packet from any header, command and
\* payload, and recv() is applied to the bytes that come back
\* ------------------------------------------------------------------------

\* longest command and longest payload handed to send()
MaxCodecLen == 2

\* bytes of commands and payloads: the two result codes, a command byte and
\* a unit id byte; never the terminator
CodecBytes == { 6, 64, 80, 137 }

CodecStrings == UNION { [1..k -> CodecBytes] : k \in 1..MaxCodecLen }

CodecUnitIds == { DefaultUnitId, <<64, 6>> }

\* a session about to send(header, cmd, data)
InitCodec ==
    /\ profile = "HD250"
    /\ unit_id \in CodecUnitIds
    /\ op = "send"
    /\ arg = ""
    /\ pc = "send"
    /\ phase = "main"
    /\ req \in { [header |-> h, cmd |-> c, data |-> d, response_cmd |-> <<>>] :
                    h \in { <<33>>, <<63>> }, c \in CodecStrings,
                    d \in CodecStrings }
    /\ ref = FALSE
    /\ caller = "send"
    /\ expect = <<>>
    /\ resp = <<>>
    /\ res = Ok(PyNone)
    /\ was_ok = Ok(PyNone)
    /\ sr = NoSr
    /\ mode_val = Ok(PyNone)
    /\ ret = Ok(PyNone)
    /\ written = <<>>
    /\ nreads = 0
    /\ io = <<>>
    /\ failed = FALSE
    /\ inflight = <<>>
    /\ rx = <<>>
    /\ stale_read = FALSE

\* the line is looped back: recv() reads the very bytes send() wrote
RecvEcho ==
    /\ pc = "recv"
    /\ RecvLine(written[Len(written)])
    /\ UNCHANGED portvars

\* the device answers with the frame it was sent, the header replaced by
\* the Data result code 0x40
RecvDataReply ==
    /\ pc = "recv"
    /\ RecvLine(<<64>> \o Tail(written[Len(written)]))
    /\ UNCHANGED portvars

NextCodec ==
    \/ Send
    \/ RecvEcho
    \/ RecvDataReply

SpecCodec == InitCodec /\ [][NextCodec]_vars

\* ------------------------------------------------------------------------
\* Properties
\* ------------------------------------------------------------------------

\* the frame of the power query: 3f <unit id> 50 57 0a
PowerQueryFrame == <<63>> \o unit_id \o <<80, 87, 10>>

\* a finished set_input / input call that found self.mode to be a value
\* other than "power-on" (None included)
NotPoweredOn ==
    /\ pc = "done"
    /\ op \in {"set_input", "input"}
    /\ mode_val.exc = "none"
    /\ mode_val.val # PyStr("power-on")

\* C1, as claimed: when power_mode() is not "power-on", set_input returns
\* false and current_input returns None, and the number of frames written
\* to the port during the call is zero.
C1_ZeroFramesWritten ==
    NotPoweredOn =>
        /\ ret = Ok(IF op = "set_input" THEN PyFalse ELSE PyNone)
        /\ written = <<>>

\* C1, amended: when the power query of the call yields a value other than
\* "power-on", set_input returns false and current_input returns None, and
\* the only frame written during the call is the power query itself.
C1_OnlyPowerQueryWritten ==
    NotPoweredOn =>
        /\ ret = Ok(IF op = "set_input" THEN PyFalse ELSE PyNone)
        /\ written = << PowerQueryFrame >>

C1_Witness ==
    /\ NotPoweredOn
    /\ op = "set_input"
    /\ arg = "hdmi1"
    /\ mode_val = Ok(PyStr("standby"))
    /\ ret = Ok(PyFalse)

\* a press_button call with a button outside the profile's VALID_BUTTONS
C2_Unsupported ==
    /\ op = "press_button"
    /\ \/ profile = "HD250" /\ arg \notin HD250_VALID_BUTTONS
       \/ profile = "RS40" /\ arg \notin RS40_VALID_BUTTONS

\* C2: for both profiles, press_button(b) with b outside the profile's
\* valid-button set raises ValueError (the InvalidArgument error) and never
\* reaches the transport: nothing is written and nothing is read.
C2_InvalidButtonRejected ==
    C2_Unsupported =>
        /\ pc = "done"
        /\ ret.exc = "ValueError"
        /\ written = <<>>
        /\ nreads = 0
        /\ io = <<>>

C2_Witness ==
    /\ C2_Unsupported
    /\ profile = "RS40"
    /\ arg = "brightness"
    /\ pc = "done"
    /\ ret.exc = "ValueError"

\* C3: in power-on mode, set_input(source) with a source outside the
\* profile's input-code table raises ValueError (InvalidArgument) and issues
\* no operating request; with a source of the table it issues the operating
\* request 21 <unit id> 49 50 <code> 0a.
C3_InvalidSourceRaises ==
    (pc = "done" /\ op = "set_input" /\ mode_val = Ok(PyStr("power-on"))) =>
        IF arg \in VALID_SOURCES(profile)
        THEN /\ Len(written) = 2
             /\ written[2] = <<33>> \o unit_id \o <<73, 80>>
                             \o source_to_code(profile, arg).val.v \o <<10>>
        ELSE /\ ret.exc = "ValueError"
             /\ written = << PowerQueryFrame >>

\* a call of press_button / set_input with a name the profile lacks
C4_Unsupported ==
    \/ op = "press_button" /\ arg \notin valid_buttons(profile)
    \/ op = "set_input" /\ arg \notin VALID_SOURCES(profile)

\* C4, as claimed: in every call of press_button or set_input with an
\* unsupported name, no write to and no read from the port happens.
C4_NoIOForUnsupportedName == C4_Unsupported => io = <<>>

\* C4, amended: press_button with an unsupported button is rejected before
\* any port access.  set_input with an unsupported source looks the source
\* up only after the power query: the port accesses of the call are those
\* of the power query (one write, then at most two reads) and no operating
\* request is ever written for it.
C4_NoRequestForUnsupportedName ==
    /\ (op = "press_button" /\ arg \notin valid_buttons(profile)) =>
           /\ pc = "done"
           /\ ret.exc = "ValueError"
           /\ io = <<>>
    /\ (op = "set_input" /\ arg \notin VALID_SOURCES(profile)) =>
           /\ phase = "mode"
           /\ io \in { <<>>, <<"w">>, <<"w", "r">>, <<"w", "r", "r">> }
           /\ written \in { <<>>, << PowerQueryFrame >> }

C4_Witness ==
    /\ pc = "done"
    /\ op = "set_input"
    /\ profile = "RS40"
    /\ arg = "video"
    /\ mode_val = Ok(PyStr("power-on"))
    /\ io = <<"w", "r", "r">>

\* the line is non-empty, starts with 0x06 or 0x40, carries the unit id in
\* bytes [1:3] and the command c in bytes [3:3+len(c)]
FrameAccepted(rsp, c, uid) ==
    /\ Len(rsp) > 0
    /\ rsp[1] \in {6, 64}
    /\ Slice(rsp, 1, 3) = uid
    /\ Slice(rsp, 3, 3 + Len(c)) = c

\* C5: a read returns a result (True or payload bytes) if and only if the
\* line is non-empty, its first byte is 0x06 or 0x40, its bytes [1:3] are
\* the session's unit id and its bytes [3:3+len(c)] are the expected
\* command c; in every other case it raises ProjectorCommunicationError.
C5_ReadReturnsIffFrameValid ==
    pc = "recv_ret" =>
        IF FrameAccepted(resp, expect, unit_id)
        THEN res.exc = "none" /\ (res.val = PyTrue \/ res.val.t = "bytes")
        ELSE res.exc = PCE

C5_Witness ==
    /\ pc = "recv_ret"
    /\ FrameAccepted(resp, expect, unit_id)
    /\ resp[1] = 64
    /\ res.exc = "none"
    /\ res.val.t = "bytes"
    /\ res.val.v # <<>>

\* the line starts with one of the two known result codes
KnownResultCode(rsp) == Len(rsp) > 0 /\ rsp[1] \in {6, 64}

\* C6, as claimed: every line whose bytes [1:3] differ from the session's
\* unit id fails with the "unknown unit id" error, whatever its other bytes.
C6_AnyUnitMismatchIsUnitError ==
    (pc = "recv_ret" /\ Slice(resp, 1, 3) # unit_id) =>
        res = Raise(PCE, MsgUnknownUnitId)

\* C6, amended: every line whose bytes [1:3] differ from the session's unit
\* id fails with a communication error; it is the "unknown unit id" error
\* when the line starts with 0x06 or 0x40, whatever the bytes after the
\* unit id, the "no response" error when the line is empty and the "unknown
\* result code" error otherwise.
C6_UnitMismatchAfterResultCode ==
    (pc = "recv_ret" /\ Slice(resp, 1, 3) # unit_id) =>
        /\ res.exc = PCE
        /\ res.msg = IF resp = <<>> THEN MsgNoResponse
                     ELSE IF KnownResultCode(resp) THEN MsgUnknownUnitId
                     ELSE MsgUnknownResultCode

C6_Witness ==
    /\ pc = "recv_ret"
    /\ Len(resp) >= 5
    /\ resp[1] = 6
    /\ Slice(resp, 1, 3) = <<137, 2>>
    /\ Slice(resp, 3, 3 + Len(expect)) # expect
    /\ res = Raise(PCE, MsgUnknownUnitId)

\* C7, as claimed: every line whose bytes [3:3+len(c)] differ from the
\* expected command c fails with the command mismatch error, whatever its
\* other bytes.
C7_AnyCmdMismatchIsCmdError ==
    (pc = "recv_ret" /\ Slice(resp, 3, 3 + Len(expect)) # expect) =>
        res = Raise(PCE, MsgCommandMismatch)

\* C7, amended: every line whose bytes [3:3+len(c)] differ from the expected
\* command c fails with a communication error; it is the command mismatch
\* error when the line starts with 0x06 or 0x40 and carries the session's
\* unit id, whatever the bytes after the command echo.
C7_CmdMismatchAfterUnitId ==
    (pc = "recv_ret" /\ Slice(resp, 3, 3 + Len(expect)) # expect) =>
        /\ res.exc = PCE
        /\ (KnownResultCode(resp) /\ Slice(resp, 1, 3) = unit_id) =>
               res.msg = MsgCommandMismatch

C7_Witness ==
    /\ pc = "recv_ret"
    /\ expect = <<80, 87>>
    /\ Slice(resp, 0, 5) = <<64, 137, 1, 80, 88>>
    /\ res = Raise(PCE, MsgCommandMismatch)

\* C8: a request whose read yields no bytes fails with
\* ProjectorCommunicationError("no response from projector"), which reaches
\* the caller of the request (send_operating's caller, or send_reference);
\* it yields no value and no other error.
C8_NoResponseRaised ==
    /\ (pc = "recv_ret" /\ caller = "send" /\ resp = <<>>) =>
           res = Raise(PCE, MsgNoResponse)
    /\ (pc = "done" /\ ~ref /\ io # <<>> /\ resp = <<>>) =>
           ret = Raise(PCE, MsgNoResponse)
    /\ (pc = "returned" /\ ref /\ caller = "send" /\ resp = <<>>) =>
           (sr.exc = PCE /\ sr.msg = MsgNoResponse)

C8_Witness ==
    /\ pc = "done"
    /\ op = "turn_on"
    /\ written = << <<33, 137, 1, 80, 87, 49, 10>> >>
    /\ resp = <<>>
    /\ ret = Raise(PCE, MsgNoResponse)

\* C9, as claimed: for every public operation, a call during which a read
\* failed with a communication error ends by raising
\* ProjectorCommunicationError.
C9_FailedReadAlwaysRaises == (pc = "done" /\ failed) => ret.exc = PCE

\* C9, amended: a read that fails during ready, turn_on, turn_off,
\* press_button, or during the request set_input / current_input issue after
\* their power check, ends the call by raising that communication error.  A
\* read that fails during the power query (power_mode itself, and the power
\* check of current_input and set_input) is caught and printed: the call
\* returns None (False for set_input).
C9_FailedReadRaisesOutsidePowerQuery ==
    (pc = "done" /\ failed) =>
        IF phase = "mode"
        THEN ret = Ok(IF op = "set_input" THEN PyFalse ELSE PyNone)
        ELSE ret = Raise(PCE, res.msg)

C9_Witness ==
    /\ pc = "done"
    /\ failed
    /\ op = "input"
    /\ phase = "main"
    /\ ret.exc = PCE

\* C10: power_mode() returns None, and raises nothing, whenever its
\* reference request did not succeed: the transport raised a communication
\* error, or the first response line was not an Ack (a valid Data line
\* echoing 50 57, say).
C10_ModeNoneWhenRequestFailed ==
    (pc = "done" /\ op = "mode" /\ (sr.exc # "none" \/ sr.success # PyTrue)) =>
        ret = Ok(PyNone)

\* the last line read is the Data line 40 <unit id> 50 57 <b> 0a that
\* follows the Ack of the power query of a mode call
PowerStateAnswered ==
    /\ pc = "done"
    /\ op = "mode"
    /\ nreads = 2
    /\ Len(resp) = 7
    /\ Slice(resp, 0, 5) = <<64>> \o unit_id \o <<80, 87>>
    /\ resp[7] = 10

\* C11: when the power query is answered by a valid Ack and then a valid
\* Data line with one payload byte b, power_mode() returns "standby" for
\* 0x30, "power-on" for 0x31, "cool-down" for 0x32, "warning" for 0x34, and
\* raises ValueError for every other b; no unknown byte yields a value.
C11_PowerStateDecoded ==
    PowerStateAnswered =>
        ret = CASE resp[6] = 48 -> Ok(PyStr("standby"))
                [] resp[6] = 49 -> Ok(PyStr("power-on"))
                [] resp[6] = 50 -> Ok(PyStr("cool-down"))
                [] resp[6] = 52 -> Ok(PyStr("warning"))
                [] OTHER -> Raise("ValueError", "unknown power state")

C11_Witness ==
    /\ PowerStateAnswered
    /\ resp[6] = 57
    /\ ret.exc = "ValueError"

\* the port accesses of the call from its last write on
IoSinceLastWrite ==
    LET k == CHOOSE i \in 1..Len(io) :
                 io[i] = "w" /\ \A j \in (i + 1)..Len(io) : io[j] # "w"
    IN  SubSeq(io, k, Len(io))

\* C12: a reference request writes one frame with header 0x3f and reads one
\* line, checked against the command sent.  If and only if that line is an
\* Ack it reads exactly one more line, checked against the same command,
\* and returns that read's result as the data; otherwise it reads no more
\* and yields no data.
C12_ReferenceTwoPhase ==
    /\ (ref /\ pc \in {"recv", "recv_ret", "returned"}) =>
           /\ written[Len(written)] = <<63>> \o unit_id \o req.cmd \o <<10>>
           /\ expect = req.cmd
    /\ (ref /\ pc \in {"recv", "recv_ret"}) =>
           IF caller = "send_reference"
           THEN was_ok = Ok(PyTrue) /\ IoSinceLastWrite \in {<<"w", "r">>, <<"w", "r", "r">>}
           ELSE IoSinceLastWrite \in {<<"w">>, <<"w", "r">>}
    /\ (ref /\ pc = "returned") =>
           IF was_ok = Ok(PyTrue)
           THEN /\ IoSinceLastWrite = <<"w", "r", "r">>
                /\ sr = IF res.exc = "none"
                        THEN [exc |-> "none", msg |-> "",
                              success |-> PyTrue, state |-> res.val]
                        ELSE [exc |-> res.exc, msg |-> res.msg,
                              success |-> PyNone, state |-> PyNone]
           ELSE /\ IoSinceLastWrite = <<"w", "r">>
                /\ sr.state = PyNone
                /\ sr.exc = was_ok.exc
                /\ was_ok.exc = "none" => sr.success = was_ok.val

C12_Witness ==
    /\ pc = "returned"
    /\ op = "mode"
    /\ was_ok = Ok(PyTrue)
    /\ io = <<"w", "r", "r">>
    /\ written = << <<63, 137, 1, 80, 87, 10>> >>
    /\ sr.exc = "none"
    /\ sr.state = PyBytes(<<49>>)

\* C13: turn_on() and turn_off() each write exactly one frame: 0x21, the
\* unit id, 50 57, the payload byte (0x31 for on, 0x30 for off) and 0x0A,
\* in that order; they return true when the line read is the Ack
\* 06 <unit id> 50 57 0a.
C13_PowerFrames ==
    op \in {"turn_on", "turn_off"} =>
        /\ written =
               IF pc = "send" THEN <<>>
               ELSE << <<33>> \o unit_id \o <<80, 87>>
                       \o (IF op = "turn_on" THEN <<49>> ELSE <<48>>)
                       \o <<10>> >>
        /\ (pc = "done" /\ resp = <<6>> \o unit_id \o <<80, 87, 10>>) =>
               ret = Ok(PyTrue)

C13_Witness ==
    /\ pc = "done"
    /\ op = "turn_on"
    /\ unit_id = <<137, 1>>
    /\ written = << <<33, 137, 1, 80, 87, 49, 10>> >>
    /\ resp = <<6, 137, 1, 80, 87, 10>>
    /\ io = <<"w", "r">>
    /\ ret = Ok(PyTrue)

\* C14: for every button b of the profile's valid-button set,
\* press_button(b) writes one operating frame with command 52 43 37 33 and
\* the registry code of b as payload, and checks the response echo against
\* 52 43 only: 06 <unit id> 52 43 ... is accepted, a line whose bytes [3:5]
\* are not 52 43 fails with the command mismatch error.  A request without
\* a response command override checks the echo against the command it sent.
C14_RemoteControlEcho ==
    /\ (op = "press_button" /\ io # <<>>) =>
           /\ written = << <<33>> \o unit_id \o <<82, 67, 55, 51>>
                           \o CODES[arg] \o <<10>> >>
           /\ expect = <<82, 67>>
    /\ (op = "press_button" /\ pc = "recv_ret"
            /\ KnownResultCode(resp) /\ Slice(resp, 1, 3) = unit_id) =>
           IF Slice(resp, 3, 5) = <<82, 67>>
           THEN res.exc = "none"
           ELSE res = Raise(PCE, MsgCommandMismatch)
    /\ (op # "press_button" /\ pc \in {"recv", "recv_ret"}) =>
           /\ req.response_cmd = <<>>
           /\ expect = req.cmd

C14_Witness ==
    /\ pc = "recv_ret"
    /\ op = "press_button"
    /\ arg = "menu"
    /\ written = << <<33, 137, 1, 82, 67, 55, 51, 50, 69, 10>> >>
    /\ resp = <<6, 137, 1, 82, 67, 10>>
    /\ res = Ok(PyTrue)

\* the prefixes of a sequence
Prefixes(q) == { SubSeq(q, 1, k) : k \in 0..Len(q) }

\* C15, as claimed: counted over one call, an operation writes at most one
\* frame, followed by at most one read (two for the reference queries
\* power_mode and current_input).
C15_OneExchangePerCall ==
    io \in Prefixes(IF op \in {"mode", "input"} THEN <<"w", "r", "r">>
                    ELSE <<"w", "r">>)

\* the most port accesses a call of o makes, in order
MaxIo(o) ==
    CASE o \in {"ready", "turn_on", "turn_off", "press_button"} -> <<"w", "r">>
      [] o = "mode" -> <<"w", "r", "r">>
      [] o = "set_input" -> <<"w", "r", "r", "w", "r">>
      [] o = "input" -> <<"w", "r", "r", "w", "r", "r">>
      [] OTHER -> <<>>

\* C15, amended: ready, turn_on, turn_off and press_button make at most one
\* exchange per call (one write, then one read); power_mode makes one
\* reference exchange (one write, then at most two reads); model_name makes
\* none.  set_input and current_input first make the reference exchange of
\* the power query and then at most one more exchange: set_input an
\* operating one (two writes and three reads in all), current_input a
\* reference one (two writes and four reads in all).
C15_ExchangesPerCall == io \in Prefixes(MaxIo(op))

C15_Witness ==
    /\ pc = "done"
    /\ op = "input"
    /\ profile = "RS40"
    /\ io = <<"w", "r", "r", "w", "r", "r">>
    /\ written = << <<63, 137, 1, 80, 87, 10>>, <<63, 137, 1, 73, 80, 10>> >>
    /\ ret = Ok(PyStr("component"))

\* C16, as claimed: recv(cmd), with the session's unit id, applied to the
\* bytes send() built from (header, unit id, cmd, payload) recovers the
\* payload (and finds unit id and cmd in place), for header 0x21 or 0x3f
\* and all non-empty cmd and payload without the terminator byte.
C16_RoundTrip ==
    (pc = "recv_ret" /\ resp = written[1]) => res = Ok(PyBytes(req.data))

\* C16, amended: the bytes send() builds start with the header 0x21 or
\* 0x3f, which recv() rejects with the "unknown result code" error.  With
\* the header replaced by the Data result code 0x40, recv(cmd) finds the
\* unit id in bytes [1:3] and cmd in bytes [3:3+len(cmd)] and returns
\* exactly the payload, for all non-empty cmd and payload without the
\* terminator byte.
C16_RoundTripAsDataFrame ==
    /\ (pc = "recv_ret" /\ resp = written[1]) =>
           res = Raise(PCE, MsgUnknownResultCode)
    /\ (pc = "recv_ret" /\ resp = <<64>> \o Tail(written[1])) =>
           /\ Slice(resp, 1, 3) = unit_id
           /\ Slice(resp, 3, 3 + Len(req.cmd)) = req.cmd
           /\ res = Ok(PyBytes(req.data))

C16_Witness ==
    /\ pc = "recv_ret"
    /\ req.header = <<63>>
    /\ req.cmd = <<80, 6>>
    /\ req.data = <<64, 137>>
    /\ written = << <<63, 137, 1, 80, 6, 64, 137, 10>> >>
    /\ resp = <<64, 137, 1, 80, 6, 64, 137, 10>>
    /\ res = Ok(PyBytes(<<64, 137>>))

\* C17: for each of the two profiles the input-code table is a bijection:
\* code_to_source(source_to_code(s)) = s for every valid source s,
\* source_to_code(code_to_source(c)) = c for every code c of the table, and
\* no two sources of a profile share a code (the tables are constants, so
\* they are looked at between calls); and the source current_input returns
\* is the one whose code the device reported.
C17_InputTableBijection ==
    /\ pc = "idle" =>
        \A p \in Profiles :
            /\ \A s \in VALID_SOURCES(p) :
                   code_to_source(p, source_to_code(p, s).val) = Ok(PyStr(s))
            /\ \A e \in SOURCE_CODES(p) :
                   source_to_code(p, code_to_source(p, PyBytes(e[1])).val.s)
                       = Ok(PyBytes(e[1]))
            /\ \A e1, e2 \in INPUT_SOURCES(p) : e1[2] = e2[2] => e1[1] = e2[1]
    /\ (pc = "done" /\ op = "input" /\ ret.exc = "none" /\ ret.val.t = "str") =>
           source_to_code(profile, ret.val.s) = Ok(sr.state)

C17_Witness ==
    /\ pc = "done"
    /\ op = "input"
    /\ profile = "HD250"
    /\ sr.state = PyBytes(<<49>>)
    /\ ret = Ok(PyStr("video"))

\* the bytes of a line from index 3+len(c) up to, not including, its
\* trailing terminator, if it has one
PayloadOf(rsp, c) ==
    IF rsp[Len(rsp)] = 10 THEN SliceDropLast(rsp, 3 + Len(c))
    ELSE Slice(rsp, 3 + Len(c), Len(rsp))

\* C18: for every Data line that passes the unit id and command checks
\* against c, the read returns exactly the bytes from index 3+len(c) up to
\* but excluding the trailing terminator: no payload byte is dropped and no
\* other byte is included, also when the line does not end with the
\* terminator (a read cut short by the timeout).
C18_PayloadExact ==
    (pc = "recv_ret" /\ FrameAccepted(resp, expect, unit_id) /\ resp[1] = 64) =>
        res = Ok(PyBytes(PayloadOf(resp, expect)))

\* C19: within one call, once a read has failed with a communication
\* error the call makes no further write and no further read, and no
\* request frame is written twice in a call.
C19_NoIOAfterFailure ==
    [][ /\ (failed /\ pc # "done") =>
               (io' = io /\ written' = written /\ nreads' = nreads)
        /\ \A i, j \in 1..Len(written') :
               written'[i] = written'[j] => i = j ]_vars

C19_Witness ==
    /\ pc = "done"
    /\ op = "input"
    /\ failed
    /\ resp = <<21, 137, 1, 80, 87, 10>>
    /\ io = <<"w", "r">>
    /\ ret = Ok(PyNone)

\* ---------------------------------------------------------------------
\* The port with a projector at the other end whose replies may be late
\* ---------------------------------------------------------------------

\* most lines that are on their way or waiting in the input buffer
MaxPending == 2

\* payloads of the Data line the projector answers a reference request with
DevicePayloads == { <<48>>, <<49>> }

\* the line recv() accepts as the Ack of a written frame: the result code,
\* then the unit id and the command of the frame
DeviceAck(frame) == <<6>> \o SubSeq(frame, 2, 5) \o <<10>>

\* the line recv() accepts as the Data reply of a written frame
DeviceData(frame, p) == <<64>> \o SubSeq(frame, 2, 5) \o p \o <<10>>

\* the answers to a frame: an Ack, followed by a Data line when the frame is
\* a reference request
DeviceAnswer(frame) ==
    IF frame[1] = 63
    THEN { << DeviceAck(frame), DeviceData(frame, p) >> : p \in DevicePayloads }
    ELSE { << DeviceAck(frame) >> }

\* the lines of an answer to a frame of the call in progress
Fresh(lines) == [i \in 1..Len(lines) |-> [line |-> lines[i], fresh |-> TRUE]]

\* send(): port.write(...) reaches the projector, which answers the frame
\* at most once
SendToDevice ==
    /\ SendPacket
    /\ \/ \E ans \in DeviceAnswer(Packet(req.header, unit_id, req.cmd, req.data)) :
              /\ Len(inflight) + Len(rx) + Len(ans) <= MaxPending
              /\ inflight' = inflight \o Fresh(ans)
       \/ inflight' = inflight
    /\ UNCHANGED << rx, stale_read >>

\* a line of the projector arrives in the input buffer of the port, at any
\* time: the buffer is filled by the driver, not by the calls
Deliver ==
    /\ inflight # <<>>
    /\ rx' = Append(rx, Head(inflight))
    /\ inflight' = Tail(inflight)
    /\ UNCHANGED << profile, unit_id, op, arg, pc, phase, req, ref, caller,
                    expect, resp, res, was_ok, sr, mode_val, ret, written,
                    nreads, io, failed, stale_read >>

\* recv(): port.readline() returns the oldest line of the input buffer, or
\* b"" at the timeout when the buffer is empty
RecvFromPort ==
    /\ pc = "recv"
    /\ IF rx # <<>>
       THEN /\ RecvLine(Head(rx).line)
            /\ rx' = Tail(rx)
            /\ stale_read' = ~Head(rx).fresh
       ELSE /\ RecvLine(<<>>)
            /\ rx' = rx
            /\ stale_read' = FALSE
    /\ UNCHANGED inflight

NextLate ==
    \/ Ready
    \/ Mode
    \/ TurnOn
    \/ TurnOff
    \/ SetInput
    \/ PressButton
    \/ Input
    \/ Model
    \/ SendToDevice
    \/ Deliver
    \/ RecvFromPort
    \/ SendOperatingReturn
    \/ SendReferenceAck
    \/ SendReferenceData
    \/ ModeReturn
    \/ SetInputAfterMode
    \/ InputAfterMode
    \/ InputReturn
    \/ Return

SpecLate == Init /\ [][NextLate]_vars

\* C20: every line a call accepts was sent by the projector in answer to a
\* frame written during that same call; a reply that arrives after its call
\* timed out is never accepted as the result of a later call.
C20_AcceptedReplyIsFresh ==
    (pc = "recv_ret" /\ res.exc = "none") => ~stale_read

====
